---- MODULE Spec2Model ----
(***************************************************************************)
(* The batch lifecycle of a SIGEPy session (src/SIGEPy.py): packages and   *)
(* party addresses are accumulated, close_posting_list requests one        *)
(* tracking code per package, assembles the labels, submits the list to    *)
(* the registrar, stores the closed list and drops the accumulated data.   *)
(* The registrar (correios.client.Correios) and the renderer               *)
(* (PostingReportPDFRenderer) are collaborators: every call to them is     *)
(* recorded in `calls` and may succeed or fail.                            *)
(***************************************************************************)
EXTENDS Integers, Sequences, FiniteSets, TLC

VARIABLES
    packages,        \* self._packages: the accumulated Package objects, in order
    sender,          \* self._sender: None or an Address
    receiver,        \* self._receiver: None or an Address
    posting_list,    \* self._posting_list: None or the closed PostingList
    render_list,     \* self._render.posting_list: the list the renderer holds
    pc,              \* "idle", or "closing" while close_posting_list runs
    open_list,       \* the local closed_posting_list of a running close
    nextPkg,         \* number of Package objects constructed so far
    nextCode,        \* number of tracking codes the registrar has issued
    calls,           \* collaborator calls made by the most recent operation
    last             \* the most recent operation and what it returned/raised

vars == << packages, sender, receiver, posting_list, render_list, pc,
           open_list, nextPkg, nextCode, calls, last >>

---------------------------------------------------------------------------
(* Bounds of the model *)

\* Package objects constructed in a session
MaxAdds == 2

\* tracking codes the registrar issues in a session
MaxCodes == 3

---------------------------------------------------------------------------
(* Values *)

\* None as a service value
NoneVal == "None"

\* an optional object (sender, receiver, a posting list): None or Some(x)
None == << >>

Some(x) == << x >>

Get(o) == o[1]

PostingCard == "posting_card"

\* a service as a caller may give it: a symbolic constant or its code
ServiceInputs == {"PAC", "04669", "SEDEX"}

\* Service.get: resolve a symbolic constant or a code to the Service
ServiceGet(s) ==
    CASE s = "PAC" -> "PAC"
      [] s = "04669" -> "PAC"
      [] s = "SEDEX" -> "SEDEX"
      [] s = "04162" -> "SEDEX"

\* the fields a caller gives create_sender / create_receiver
AddressInputs ==
    { [name |-> "Ana", zip_code |-> "01310100"],
      [name |-> "Bia", zip_code |-> "20040020"],
      [name |-> "Bad", zip_code |-> "123"] }

\* the receivers most behaviours of the model draw from: one valid address
\* and the malformed one
FewAddressInputs == { f \in AddressInputs : f.name # "Ana" }

\* Address(*args, **kwargs) raises on a malformed zip code
ValidAddress(f) == f.zip_code # "123"

Address(f) == [name |-> f.name, zip_code |-> f.zip_code]

\* randint(RandLow, RandHigh)
RandLow == 1000

RandHigh == 9999999

\* the values of randint(RandLow, RandHigh) the model draws
RandIds == {RandLow}

\* custom_id as the caller gives it: omitted (None) or an integer
CustomIdArgs == {None, Some(0)}

\* an add_package call: the number of positional arguments, whether
\* 'service' is among the keyword arguments, the service given (NoneVal when
\* none is given), and whether Package accepts the other fields
PackageCall(nargs, kw, service, fields_ok) ==
    [nargs |-> nargs, kw |-> kw, service |-> service, fields_ok |-> fields_ok]

AddPackageCalls ==
    { PackageCall(0, TRUE, s, TRUE) : s \in ServiceInputs \cup {NoneVal} }
    \cup { PackageCall(0, TRUE, "PAC", FALSE) }
    \cup { PackageCall(8, FALSE, s, TRUE) : s \in {"SEDEX", NoneVal} }
    \cup { PackageCall(n, FALSE, NoneVal, TRUE) : n \in {0, 7} }

\* Package(*args, **kwargs).service: the keyword or 8th positional argument,
\* resolved when it is not None; the default None otherwise
PackageService(c) ==
    IF (c.kw \/ c.nargs >= 8) /\ c.service # NoneVal
    THEN ServiceGet(c.service)
    ELSE NoneVal

\* what an operation leaves in `last`: its name, its arguments, "ok" or the
\* exception it raised, the kind of value it returned and that value
Result(op, args, outcome, kind, seq) ==
    [op |-> op, args |-> args, outcome |-> outcome, kind |-> kind, seq |-> seq]

\* a call to a collaborator: its name, the service and the package it is
\* made for (NoneVal, 0 when it has none) and the posting list it is given
Call(name, service, pkg, list) ==
    [call |-> name, service |-> service, pkg |-> pkg, list |-> list]

---------------------------------------------------------------------------
Init ==
    /\ packages = << >>
    /\ sender = None
    /\ receiver = None
    /\ posting_list = None
    /\ render_list = None
    /\ pc = "idle"
    /\ open_list = None
    /\ nextPkg = 0
    /\ nextCode = 0
    /\ calls = << >>
    /\ last = Result("init", << >>, "ok", "none", << >>)

---------------------------------------------------------------------------
(* add_package, create_sender, create_receiver *)

\* the guard of add_package: 'service' not in kwargs and len(args) < 7
ServiceRequiredRaised(c) == (~c.kw) /\ c.nargs < 7

\* an add_package that has a tracking code issued for the package it stores
AddPackageAllocates(c) ==
    /\ pc = "idle"
    /\ IF ServiceRequiredRaised(c)
       THEN /\ last' = Result("add_package", << c >>, "ServiceRequired",
                              "error", << >>)
            /\ calls' = << >>
            /\ UNCHANGED << packages, nextPkg, nextCode >>
       ELSE IF ~c.fields_ok
       THEN /\ last' = Result("add_package", << c >>, "ValidationError",
                              "error", << >>)
            /\ calls' = << >>
            /\ UNCHANGED << packages, nextPkg, nextCode >>
       ELSE /\ nextPkg < MaxAdds
            /\ nextCode < MaxCodes
            /\ nextPkg' = nextPkg + 1
            /\ nextCode' = nextCode + 1
            /\ calls' = << Call("request_tracking_codes", PackageService(c),
                                nextPkg + 1, None) >>
            /\ packages' = Append(packages,
                                  [id |-> nextPkg + 1, service |-> PackageService(c)])
            /\ last' = Result("add_package", << c >>, "ok", "none", << >>)
    /\ UNCHANGED << sender, receiver, posting_list, render_list, pc,
                    open_list >>

AddPackage(c) ==
    /\ pc = "idle"
    /\ calls' = << >>
    /\ IF ServiceRequiredRaised(c)
       THEN /\ last' = Result("add_package", << c >>, "ServiceRequired",
                              "error", << >>)
            /\ UNCHANGED << packages, nextPkg >>
       ELSE IF ~c.fields_ok
       THEN /\ last' = Result("add_package", << c >>, "ValidationError",
                              "error", << >>)
            /\ UNCHANGED << packages, nextPkg >>
       ELSE /\ nextPkg < MaxAdds
            /\ nextPkg' = nextPkg + 1
            /\ packages' = Append(packages,
                                  [id |-> nextPkg + 1, service |-> PackageService(c)])
            /\ last' = Result("add_package", << c >>, "ok", "none", << >>)
    /\ UNCHANGED << sender, receiver, posting_list, render_list, pc,
                    open_list, nextCode >>

\* a create_sender that keeps the sender it already has
CreateSenderKeepsFirst(f) ==
    /\ pc = "idle"
    /\ calls' = << >>
    /\ IF ValidAddress(f)
       THEN /\ sender' = IF sender = None THEN Some(Address(f)) ELSE sender
            /\ last' = Result("create_sender", << f >>, "ok", "none", << >>)
       ELSE /\ sender' = sender
            /\ last' = Result("create_sender", << f >>, "ValidationError",
                              "error", << >>)
    /\ UNCHANGED << packages, receiver, posting_list, render_list, pc,
                    open_list, nextPkg, nextCode >>

CreateSender(f) ==
    /\ pc = "idle"
    /\ calls' = << >>
    /\ IF ValidAddress(f)
       THEN /\ sender' = Some(Address(f))
            /\ last' = Result("create_sender", << f >>, "ok", "none", << >>)
       ELSE /\ sender' = sender
            /\ last' = Result("create_sender", << f >>, "ValidationError",
                              "error", << >>)
    /\ UNCHANGED << packages, receiver, posting_list, render_list, pc,
                    open_list, nextPkg, nextCode >>

CreateReceiver(f) ==
    /\ pc = "idle"
    /\ calls' = << >>
    /\ IF ValidAddress(f)
       THEN /\ receiver' = Some(Address(f))
            /\ last' = Result("create_receiver", << f >>, "ok", "none", << >>)
       ELSE /\ receiver' = receiver
            /\ last' = Result("create_receiver", << f >>, "ValidationError",
                              "error", << >>)
    /\ UNCHANGED << packages, sender, posting_list, render_list, pc,
                    open_list, nextPkg, nextCode >>

---------------------------------------------------------------------------
(* close_posting_list *)

\* the assertions without the first: an empty package list goes through
PreconditionFailureSkipsPackages ==
    IF sender = None /\ Len(packages) > 0 THEN "Invalid sender address"
    ELSE IF receiver = None /\ Len(packages) > 0
    THEN "Invalid receiver address"
    ELSE ""

\* the three assertions, in order; "" when all pass
PreconditionFailure ==
    IF Len(packages) = 0 THEN "No packages to send"
    ELSE IF sender = None THEN "Invalid sender address"
    ELSE IF receiver = None THEN "Invalid receiver address"
    ELSE ""

\* a choice of id that takes every falsy custom_id, 0 too, for a missing one
CustomIdsFalsyIsOmitted(custom_id) ==
    IF custom_id = None \/ Get(custom_id) = 0
    THEN RandIds ELSE {Get(custom_id)}

\* custom_id, or randint(1000, 9999999) when it is None
CustomIds(custom_id) ==
    IF custom_id = None THEN RandIds ELSE {Get(custom_id)}

\* PostingList(custom_id): an open list without labels
PostingList(id) == [custom_id |-> id, labels |-> << >>, closed |-> FALSE]

\* a label that takes the first accumulated package instead of its own
ShippingLabelOfFirstPackage(package, code) ==
    [posting_card |-> PostingCard, sender |-> Get(sender),
     receiver |-> Get(receiver), service |-> ServiceGet(package.service),
     tracking_code |-> code, package |-> packages[1]]

\* a label numbered after its package instead of the code just issued, so
\* that a package labelled again gets the code it got before
ShippingLabelWithCodeOfPackage(package, code) ==
    [posting_card |-> PostingCard, sender |-> Get(sender),
     receiver |-> Get(receiver), service |-> ServiceGet(package.service),
     tracking_code |-> package.id, package |-> package]

\* ShippingLabel(posting_card, sender, receiver, service, tracking_code,
\* package), for one accumulated package and the code requested for it
ShippingLabel(package, code) ==
    [posting_card |-> PostingCard, sender |-> Get(sender),
     receiver |-> Get(receiver), service |-> ServiceGet(package.service),
     tracking_code |-> code, package |-> package]

\* PostingList.add_shipping_label
AddShippingLabel(list, label) ==
    [list EXCEPT !.labels = Append(@, label)]

\* a drop that forgets the package list
DropPostingListDataKeepsPackages ==
    /\ packages' = packages
    /\ receiver' = None
    /\ sender' = None

\* a drop that leaves the last package behind
DropPostingListDataButLast ==
    /\ packages' = SubSeq(packages, Len(packages), Len(packages))
    /\ receiver' = None
    /\ sender' = None

\* _drop_posting_list_data
DropPostingListData ==
    /\ packages' = << >>
    /\ receiver' = None
    /\ sender' = None

\* a close that drops the accumulated data on its way out of an exception
CloseRaisesAndDrops(outcome) ==
    /\ pc' = "idle"
    /\ open_list' = None
    /\ last' = Result("close_posting_list", last.args, outcome, "error", << >>)
    /\ packages' = << >>
    /\ sender' = None
    /\ receiver' = None
    /\ UNCHANGED << posting_list, render_list >>

\* a close that stores the list it was building on its way out of an
\* exception
CloseRaisesStoresOpenList(outcome) ==
    /\ pc' = "idle"
    /\ open_list' = None
    /\ last' = Result("close_posting_list", last.args, outcome, "error", << >>)
    /\ posting_list' = open_list
    /\ render_list' = open_list
    /\ UNCHANGED << packages, sender, receiver >>

\* an exception leaves close_posting_list: nothing after the raise runs
CloseRaises(outcome) ==
    /\ pc' = "idle"
    /\ open_list' = None
    /\ last' = Result("close_posting_list", last.args, outcome, "error", << >>)
    /\ UNCHANGED << packages, sender, receiver, posting_list, render_list >>

\* a close_posting_list that forgets the stored list as soon as its
\* assertions have passed
ClosePostingListForgetsStored(custom_id) ==
    /\ pc = "idle"
    /\ calls' = << >>
    /\ IF PreconditionFailure # ""
       THEN /\ last' = Result("close_posting_list", << custom_id >>,
                              "AssertionError", PreconditionFailure, << >>)
            /\ UNCHANGED << packages, sender, receiver, posting_list,
                            render_list, pc, open_list >>
       ELSE /\ \E id \in CustomIds(custom_id) : open_list' = Some(PostingList(id))
            /\ pc' = "closing"
            /\ last' = Result("close_posting_list", << custom_id >>,
                              "running", "none", << >>)
            /\ posting_list' = None
            /\ render_list' = None
            /\ UNCHANGED << packages, sender, receiver >>
    /\ UNCHANGED << nextPkg, nextCode >>

\* lines 104-111: the assertions, the id, the empty PostingList
ClosePostingList(custom_id) ==
    /\ pc = "idle"
    /\ calls' = << >>
    /\ IF PreconditionFailure # ""
       THEN /\ last' = Result("close_posting_list", << custom_id >>,
                              "AssertionError", PreconditionFailure, << >>)
            /\ UNCHANGED << packages, sender, receiver, posting_list,
                            render_list, pc, open_list >>
       ELSE /\ \E id \in CustomIds(custom_id) : open_list' = Some(PostingList(id))
            /\ pc' = "closing"
            /\ last' = Result("close_posting_list", << custom_id >>,
                              "running", "none", << >>)
            /\ UNCHANGED << packages, sender, receiver, posting_list,
                            render_list >>
    /\ UNCHANGED << nextPkg, nextCode >>

\* a loop that stops after its first package
LabelsPendingFirstOnly == Len(Get(open_list).labels) < 1

\* the loop has a package left to label
LabelsPending == Len(Get(open_list).labels) < Len(packages)

\* lines 112-120: one iteration of the loop over self.packages
CloseLabel ==
    /\ pc = "closing"
    /\ LabelsPending
    /\ LET package == packages[Len(Get(open_list).labels) + 1] IN
       IF package.service = NoneVal
       THEN \* Service.get(None) raises before the registrar is called
            /\ CloseRaises("ServiceError")
            /\ UNCHANGED << calls, nextCode >>
       ELSE /\ calls' = Append(calls, Call("request_tracking_codes",
                                           ServiceGet(package.service),
                                           package.id, None))
            /\ \/ /\ CloseRaises("RemoteError")
                  /\ UNCHANGED nextCode
               \/ /\ nextCode < MaxCodes
                  /\ nextCode' = nextCode + 1
                  /\ open_list' = Some(AddShippingLabel(Get(open_list),
                                      ShippingLabel(package, nextCode + 1)))
                  /\ UNCHANGED << packages, sender, receiver, posting_list,
                                  render_list, pc, last >>
    /\ UNCHANGED nextPkg

\* the registrar's close_posting_list accepts the list and returns it closed
RegistrarClose(list) == [list EXCEPT !.closed = TRUE]

\* lines 122-126: the closure call, the stores, the drop, the return
CloseSubmit ==
    /\ pc = "closing"
    /\ ~LabelsPending
    /\ calls' = Append(calls, Call("close_posting_list", NoneVal, 0,
                                   open_list))
    /\ \/ CloseRaises("RemoteError")
       \/ /\ posting_list' = Some(RegistrarClose(Get(open_list)))
          /\ render_list' = Some(RegistrarClose(Get(open_list)))
          /\ DropPostingListData
          /\ pc' = "idle"
          /\ open_list' = None
          /\ last' = Result("close_posting_list", last.args, "ok",
                            "posting_list", << RegistrarClose(Get(open_list)) >>)
    /\ UNCHANGED << nextPkg, nextCode >>

\* `if args or kwargs: return super().close_posting_list(*args, **kwargs)`:
\* the caller's own list goes straight to the registrar
ForwardedLists == { [custom_id |-> 7, labels |-> << >>, closed |-> FALSE] }

\* a forwarded close that stores the list the registrar returned
ClosePostingListForwardedStores(list) ==
    /\ pc = "idle"
    /\ calls' = << Call("close_posting_list", NoneVal, 0, Some(list)) >>
    /\ \/ /\ last' = Result("close_posting_list_forwarded", << list >>,
                            "RemoteError", "error", << >>)
          /\ UNCHANGED << posting_list, render_list >>
       \/ /\ last' = Result("close_posting_list_forwarded", << list >>, "ok",
                            "posting_list", << RegistrarClose(list) >>)
          /\ posting_list' = Some(RegistrarClose(list))
          /\ render_list' = Some(RegistrarClose(list))
    /\ UNCHANGED << packages, sender, receiver, pc, open_list, nextPkg,
                    nextCode >>

ClosePostingListForwarded(list) ==
    /\ pc = "idle"
    /\ calls' = << Call("close_posting_list", NoneVal, 0, Some(list)) >>
    /\ \/ last' = Result("close_posting_list_forwarded", << list >>,
                         "RemoteError", "error", << >>)
       \/ last' = Result("close_posting_list_forwarded", << list >>, "ok",
                         "posting_list", << RegistrarClose(list) >>)
    /\ UNCHANGED << packages, sender, receiver, posting_list, render_list,
                    pc, open_list, nextPkg, nextCode >>

---------------------------------------------------------------------------
(* request_tracking_codes, called by the user *)

Quantities == {1, 2}

\* the codes the registrar issues for a request of q codes
IssuedCodes(q) == [i \in 1..q |-> nextCode + i]

RequestTrackingCodes(service, q) ==
    /\ pc = "idle"
    /\ IF service = NoneVal
       THEN /\ calls' = << >>
            /\ last' = Result("request_tracking_codes", << service >>,
                              "ServiceError", "error", << >>)
            /\ UNCHANGED nextCode
       ELSE /\ calls' = << Call("request_tracking_codes", ServiceGet(service),
                                0, None) >>
            /\ \/ /\ last' = Result("request_tracking_codes", << service >>,
                                    "RemoteError", "error", << >>)
                  /\ UNCHANGED nextCode
               \/ /\ nextCode + q <= MaxCodes
                  /\ nextCode' = nextCode + q
                  /\ last' = Result("request_tracking_codes", << service >>,
                                    "ok", "list", IssuedCodes(q))
    /\ UNCHANGED << packages, sender, receiver, posting_list, render_list,
                    pc, open_list, nextPkg >>

---------------------------------------------------------------------------
(* generate_delivery_labels_pdf, generate_delivery_posting_list_pdf *)

\* a test of the posting list that always passes
HasPostingListAlways == TRUE

\* `if self.posting_list:`
HasPostingList == posting_list # None

\* one of the two generate_*_pdf methods; `render` is the renderer's method
GeneratePdf(op, render) ==
    /\ pc = "idle"
    /\ IF HasPostingList
       THEN /\ calls' = << Call(render, NoneVal, 0, render_list) >>
            /\ \/ last' = Result(op, << >>, "ok", "none", << >>)
               \/ last' = Result(op, << >>, "RemoteError", "error", << >>)
       ELSE /\ calls' = << >>
            /\ last' = Result(op, << >>, "PostingListIsNone", "error", << >>)
    /\ UNCHANGED << packages, sender, receiver, posting_list, render_list,
                    pc, open_list, nextPkg, nextCode >>

GenerateDeliveryLabelsPdf ==
    GeneratePdf("generate_delivery_labels_pdf", "render_labels")

GenerateDeliveryPostingListPdf ==
    GeneratePdf("generate_delivery_posting_list_pdf", "render_posting_list")

---------------------------------------------------------------------------
(* verify_service_availability, tracking_codes, delivery_time, freights *)

\* the labels of the stored list, in order (shipping_labels.values())
StoredLabels == IF posting_list = None THEN << >> ELSE Get(posting_list).labels

\* the registrar's query for one label, with the arguments the method passes
\* and no reply yet: the posting card except for a delivery time, the
\* service, the two zip codes, and the package for a freight
LabelQuery(name, label) ==
    [call |-> name,
     posting_card |-> IF name = "calculate_delivery_time"
                      THEN NoneVal ELSE label.posting_card,
     service |-> label.service,
     from_zip |-> label.sender.zip_code,
     to_zip |-> label.receiver.zip_code,
     package |-> IF name = "calculate_freights"
                 THEN Some(label.package) ELSE None,
     reply |-> None]

\* the queries for the first k labels of the stored list
LabelQueries(name, k) == [i \in 1..k |-> LabelQuery(name, StoredLabels[i])]

\* the registrar's answer to a delivery-time or freight query: a value the
\* query determines
Answer(query) == [answer_to |-> query]

\* what the registrar replied when the method got `answer` from it
Reply(name, answer) ==
    IF name = "verify_service_availability"
    THEN [available |-> answer] ELSE answer

\* a query the registrar has replied to
Replied(query, reply) == [query EXCEPT !.reply = Some(reply)]

\* the calls of a loop whose first k queries got the answers ans, and its
\* next query, if there is one, failed
QueriesMade(name, ans, k) ==
    [i \in 1..(IF k < Len(StoredLabels) THEN k + 1 ELSE k) |->
        IF i <= k
        THEN Replied(LabelQuery(name, StoredLabels[i]), Reply(name, ans[i]))
        ELSE LabelQuery(name, StoredLabels[i])]

\* a loop that puts every answer in front of the ones it has
QueryEachLabelPrepends(op, name, answers) ==
    LET n == Len(StoredLabels) IN
    \E ans \in answers :
       \/ \E k \in 0..(n - 1) :
            /\ calls' = QueriesMade(name, ans, k)
            /\ last' = Result(op, << >>, "RemoteError", "error", << >>)
       \/ /\ calls' = QueriesMade(name, ans, n)
          /\ last' = Result(op, << >>, "ok", "list",
                            [i \in 1..n |-> ans[n + 1 - i]])

\* a loop over the stored labels asking the registrar `name` for each: it
\* returns the n answers in the order it got them, or the exception of the
\* first query that fails; `answers` are the sequences of n answers the
\* registrar may give
QueryEachLabel(op, name, answers) ==
    LET n == Len(StoredLabels) IN
    \E ans \in answers :
       \/ \E k \in 0..(n - 1) :
            /\ calls' = QueriesMade(name, ans, k)
            /\ last' = Result(op, << >>, "RemoteError", "error", << >>)
       \/ /\ calls' = QueriesMade(name, ans, n)
          /\ last' = Result(op, << >>, "ok", "list", ans)

\* the answers to the availability queries: any booleans
Availabilities == [1..Len(StoredLabels) -> BOOLEAN]

\* the answers to the queries `name` of every stored label, in label order
AnswersInOrder(name) ==
    { [i \in 1..Len(StoredLabels) |-> Answer(LabelQuery(name, StoredLabels[i]))] }

\* a verify_service_availability() that raises when no list is stored
VerifyServiceAvailabilityRaises ==
    /\ pc = "idle"
    /\ IF HasPostingList
       THEN QueryEachLabel("verify_service_availability",
                           "verify_service_availability", Availabilities)
       ELSE /\ calls' = << >>
            /\ last' = Result("verify_service_availability", << >>,
                              "PostingListIsNone", "error", << >>)
    /\ UNCHANGED << packages, sender, receiver, posting_list, render_list,
                    pc, open_list, nextPkg, nextCode >>

\* a verify_service_availability() that answers from the result of the call
\* before it when that call was one too
VerifyServiceAvailabilityCached ==
    /\ pc = "idle"
    /\ IF HasPostingList
       THEN IF last.op = "verify_service_availability" /\ last.outcome = "ok"
            THEN calls' = << >> /\ last' = last
            ELSE QueryEachLabel("verify_service_availability",
                                "verify_service_availability", Availabilities)
       ELSE /\ calls' = << >>
            /\ last' = Result("verify_service_availability", << >>, "ok",
                              "None", << >>)
    /\ UNCHANGED << packages, sender, receiver, posting_list, render_list,
                    pc, open_list, nextPkg, nextCode >>

\* verify_service_availability(): the list of answers, or None
VerifyServiceAvailability ==
    /\ pc = "idle"
    /\ IF HasPostingList
       THEN QueryEachLabel("verify_service_availability",
                           "verify_service_availability", Availabilities)
       ELSE /\ calls' = << >>
            /\ last' = Result("verify_service_availability", << >>, "ok",
                              "None", << >>)
    /\ UNCHANGED << packages, sender, receiver, posting_list, render_list,
                    pc, open_list, nextPkg, nextCode >>

\* the registrar's query a caller makes through the session, for the
\* arguments as the caller gave them
ForwardedQuery(service) ==
    [call |-> "verify_service_availability", posting_card |-> NoneVal,
     service |-> service, from_zip |-> NoneVal, to_zip |-> NoneVal,
     package |-> None, reply |-> None]

\* verify_service_availability(*args, **kwargs): forwarded to the registrar
VerifyServiceAvailabilityForwarded(service) ==
    /\ pc = "idle"
    /\ \/ /\ calls' = << ForwardedQuery(service) >>
          /\ last' = Result("verify_service_availability_forwarded",
                            << service >>, "RemoteError", "error", << >>)
       \/ \E b \in BOOLEAN :
            /\ calls' = << Replied(ForwardedQuery(service),
                                   Reply("verify_service_availability", b)) >>
            /\ last' = Result("verify_service_availability_forwarded",
                              << service >>, "ok", "bool", << b >>)
    /\ UNCHANGED << packages, sender, receiver, posting_list, render_list,
                    pc, open_list, nextPkg, nextCode >>

\* list(self.tracking_codes): the generator traversed to its end
TrackingCodes ==
    /\ pc = "idle"
    /\ calls' = << >>
    /\ last' = Result("tracking_codes", << >>, "ok", "list",
                      [i \in 1..Len(StoredLabels) |->
                          StoredLabels[i].tracking_code])
    /\ UNCHANGED << packages, sender, receiver, posting_list, render_list,
                    pc, open_list, nextPkg, nextCode >>

\* list(self.delivery_time): the generator traversed to its end
DeliveryTime ==
    /\ pc = "idle"
    /\ IF HasPostingList
       THEN QueryEachLabel("delivery_time", "calculate_delivery_time",
                           AnswersInOrder("calculate_delivery_time"))
       ELSE /\ calls' = << >>
            /\ last' = Result("delivery_time", << >>, "ok", "list", << >>)
    /\ UNCHANGED << packages, sender, receiver, posting_list, render_list,
                    pc, open_list, nextPkg, nextCode >>

\* list(self.freights): the generator traversed to its end
Freights ==
    /\ pc = "idle"
    /\ IF HasPostingList
       THEN QueryEachLabel("freights", "calculate_freights",
                           AnswersInOrder("calculate_freights"))
       ELSE /\ calls' = << >>
            /\ last' = Result("freights", << >>, "ok", "list", << >>)
    /\ UNCHANGED << packages, sender, receiver, posting_list, render_list,
                    pc, open_list, nextPkg, nextCode >>


---------------------------------------------------------------------------
(* delivery_time, traversed one element at a time *)

\* a delivery_time that asks the registrar for every label when it is read
DeliveryTimeGeneratorEager ==
    /\ pc = "idle"
    /\ calls' = QueriesMade("calculate_delivery_time",
                            [i \in 1..Len(StoredLabels) |->
                                Answer(LabelQuery("calculate_delivery_time",
                                                  StoredLabels[i]))],
                            Len(StoredLabels))
    /\ last' = Result("delivery_time_generator", << >>, "suspended",
                      "generator", << >>)
    /\ UNCHANGED << packages, sender, receiver, posting_list, render_list,
                    pc, open_list, nextPkg, nextCode >>

\* `g = self.delivery_time`: reading the property makes a generator whose
\* body has not started; last.seq holds what the generator has yielded
DeliveryTimeGenerator ==
    /\ pc = "idle"
    /\ calls' = << >>
    /\ last' = Result("delivery_time_generator", << >>, "suspended",
                      "generator", << >>)
    /\ UNCHANGED << packages, sender, receiver, posting_list, render_list,
                    pc, open_list, nextPkg, nextCode >>

\* `next(g)` on the generator read last, no other operation of the session
\* having run since: the body runs to its next yield, one registrar query
\* away, or to its end
DeliveryTimeNext ==
    /\ pc = "idle"
    /\ last.op = "delivery_time_generator"
    /\ last.outcome = "suspended"
    /\ IF Len(last.seq) >= Len(StoredLabels)
       THEN \* StopIteration
            /\ calls' = calls
            /\ last' = Result("delivery_time_generator", << >>, "ok", "list",
                              last.seq)
       ELSE LET query == LabelQuery("calculate_delivery_time",
                                    StoredLabels[Len(last.seq) + 1]) IN
            \/ /\ calls' = Append(calls, query)
               /\ last' = Result("delivery_time_generator", << >>,
                                 "RemoteError", "error", last.seq)
            \/ /\ calls' = Append(calls, Replied(query, Answer(query)))
               /\ last' = Result("delivery_time_generator", << >>,
                                 "suspended", "generator",
                                 Append(last.seq, Answer(query)))
    /\ UNCHANGED << packages, sender, receiver, posting_list, render_list,
                    pc, open_list, nextPkg, nextCode >>

---------------------------------------------------------------------------
\* add_package, create_sender and create_receiver, the receiver's fields
\* drawn from `receivers`
Accumulate(receivers) ==
    \/ \E c \in AddPackageCalls : AddPackage(c)
    \/ \E f \in AddressInputs : CreateSender(f)
    \/ \E f \in receivers : CreateReceiver(f)

\* close_posting_list, step by step
Close ==
    \/ \E id \in CustomIdArgs : ClosePostingList(id)
    \/ CloseLabel
    \/ CloseSubmit

\* the operations that leave the session's state alone
Use ==
    \/ \E list \in ForwardedLists : ClosePostingListForwarded(list)
    \/ \E s \in {"04669", NoneVal}, q \in Quantities :
          RequestTrackingCodes(s, q)
    \/ GenerateDeliveryLabelsPdf
    \/ GenerateDeliveryPostingListPdf
    \/ VerifyServiceAvailability
    \/ \E s \in {"04669"} : VerifyServiceAvailabilityForwarded(s)
    \/ TrackingCodes
    \/ DeliveryTime
    \/ Freights

Next == Accumulate(FewAddressInputs) \/ Close \/ Use

\* the accumulation and the close alone, with every receiver
NextBatch == Accumulate(AddressInputs) \/ Close

\* delivery_time read and traversed step by step
Traverse ==
    \/ DeliveryTimeGenerator
    \/ DeliveryTimeNext

\* the accumulation, the close and the step-by-step traversal
NextLazy == Accumulate(FewAddressInputs) \/ Close \/ Traverse

Spec == Init /\ [][Next]_vars

SpecLazy == Init /\ [][NextLazy]_vars

SpecBatch == Init /\ [][NextBatch]_vars

---------------------------------------------------------------------------
(* The claims *)

\* a step that ends a running close_posting_list with its return
CloseReturns == pc = "closing" /\ last'.outcome = "ok"

\* the state a close_posting_list that returned leaves
ClosedOk ==
    pc = "idle" /\ last.op = "close_posting_list" /\ last.outcome = "ok"

\* a step that is a call of close_posting_list without extra arguments
CloseCalled ==
    /\ pc = "idle"
    /\ last'.op = "close_posting_list"
    /\ last'.outcome \in {"AssertionError", "running"}

C2_CloseResetsAndRecloseFails ==
    /\ [](ClosedOk => packages = << >> /\ sender = None /\ receiver = None)
    /\ [][ (ClosedOk /\ CloseCalled) =>
             /\ last'.outcome = "AssertionError"
             /\ last'.kind = "No packages to send"
             /\ pc' = "idle"
             /\ calls' = << >>
             /\ posting_list' = posting_list
         ]_vars

\* a close was refused for want of packages while a closed list is stored
\* and nothing has been accumulated since
C2_Witness ==
    /\ last.op = "close_posting_list"
    /\ last.outcome = "AssertionError"
    /\ last.kind = "No packages to send"
    /\ posting_list # None
    /\ sender = None /\ receiver = None

\* C3: a close_posting_list called with no packages, or no sender, or no
\* receiver raises AssertionError, calls no collaborator, has no tracking
\* code issued, and leaves packages, sender, receiver and the stored list
\* (the session's and the renderer's) as they were.
C3_InvalidCloseFailsFast ==
    [][ (CloseCalled
         /\ (packages = << >> \/ sender = None \/ receiver = None)) =>
          /\ last'.outcome = "AssertionError"
          /\ pc' = "idle"
          /\ calls' = << >>
          /\ nextCode' = nextCode
          /\ UNCHANGED << packages, sender, receiver, posting_list,
                          render_list >>
      ]_vars

\* a close was refused for want of a receiver, with a package and a sender
\* accumulated and a closed list stored
C3_Witness ==
    /\ last.op = "close_posting_list"
    /\ last.outcome = "AssertionError"
    /\ last.kind = "Invalid receiver address"
    /\ Len(packages) = 1
    /\ sender # None
    /\ posting_list # None

\* C4: a step of a running close_posting_list that does not return leaves
\* packages, sender and receiver as they are, and when a registrar call
\* fails the error leaves close_posting_list with them untouched.
C4_RemoteFailureKeepsAccumulator ==
    [][ (pc = "closing" /\ last'.outcome # "ok") =>
          /\ UNCHANGED << packages, sender, receiver >>
          /\ last'.outcome = "RemoteError" =>
                (pc' = "idle" /\ last'.op = "close_posting_list")
      ]_vars

\* the closure call failed after both packages had their codes
C4_Witness ==
    /\ last.op = "close_posting_list"
    /\ last.outcome = "RemoteError"
    /\ pc = "idle"
    /\ Len(packages) = 2
    /\ Len(calls) = 3
    /\ calls[3].call = "close_posting_list"

\* C5: every collaborator call of a running close_posting_list is either
\* the tracking-code request for the next package in order, or, once every
\* package has had its request, the closure call, given a list with exactly
\* one label per package, the i-th for the i-th package.
C5_RequestsInOrderThenCompleteList ==
    [][ (pc = "closing" /\ calls' # calls) =>
          LET c == calls'[Len(calls')] IN
          /\ calls' = Append(calls, c)
          /\ \/ /\ c.call = "request_tracking_codes"
                /\ Len(calls) < Len(packages)
                /\ c.pkg = packages[Len(calls) + 1].id
                /\ c.service = packages[Len(calls) + 1].service
             \/ /\ c.call = "close_posting_list"
                /\ Len(calls) = Len(packages)
                /\ \A i \in 1..Len(calls) :
                      calls[i].call = "request_tracking_codes"
                /\ Len(Get(c.list).labels) = Len(packages)
                /\ \A i \in 1..Len(packages) :
                      Get(c.list).labels[i].package = packages[i]
      ]_vars

\* a close has made two requests and then the closure call with two labels
C5_Witness ==
    /\ last.op = "close_posting_list"
    /\ Len(calls) = 3
    /\ calls[1].call = "request_tracking_codes"
    /\ calls[2].call = "request_tracking_codes"
    /\ calls[3].call = "close_posting_list"
    /\ Len(Get(calls[3].list).labels) = 2

IsRender(op) ==
    op \in {"generate_delivery_labels_pdf", "generate_delivery_posting_list_pdf"}

RendererOf(op) ==
    IF op = "generate_delivery_labels_pdf"
    THEN "render_labels" ELSE "render_posting_list"

\* C6: the stored list is None until a close_posting_list returns and holds
\* the returned list from then on; the two generate_*_pdf methods raise
\* without calling the renderer while it is None, and otherwise make exactly
\* one call of their renderer method, for the stored closed list.
C6_RenderNeedsClosedList ==
    /\ [](IsRender(last.op) =>
            IF posting_list = None
            THEN last.outcome = "PostingListIsNone" /\ calls = << >>
            ELSE /\ last.outcome \in {"ok", "RemoteError"}
                 /\ Len(calls) = 1
                 /\ calls[1].call = RendererOf(last.op)
                 /\ calls[1].list = posting_list
                 /\ Get(posting_list).closed)
    /\ [][ posting_list' # posting_list =>
             CloseReturns /\ posting_list' = Some(last'.seq[1]) ]_vars
    /\ [][ CloseReturns => posting_list' # None ]_vars

\* the labels were rendered for a stored list of two labels
C6_Witness ==
    /\ last.op = "generate_delivery_labels_pdf"
    /\ last.outcome = "ok"
    /\ posting_list # None
    /\ Len(Get(posting_list).labels) = 2
    /\ calls = << Call("render_labels", NoneVal, 0, posting_list) >>

IsMetric(op) ==
    op \in {"verify_service_availability", "delivery_time", "freights"}

OmitsService(c) == (~c.kw) /\ c.nargs < 8

\* a step that is a call of add_package
AddPackageCalled == pc = "idle" /\ last'.op = "add_package"

\* C8: an add_package call that gives no service raises and leaves the
\* package list, the sender and the receiver as they were.
C8_AddPackageWithoutServiceFails ==
    [][ (AddPackageCalled /\ OmitsService(last'.args[1])) =>
          /\ last'.outcome = "ServiceRequired"
          /\ UNCHANGED << packages, sender, receiver >>
      ]_vars

\* C9: every accumulated package has a service.
C9_EveryPackageHasService ==
    \A i \in 1..Len(packages) : packages[i].service # NoneVal

\* C10: right after a create_sender (create_receiver) that returned, the
\* sender (receiver) is the address built from that call's fields, whatever
\* it was before; a call that raised leaves it as it was; and neither
\* changes the package list, the other party or the stored list.
C10_PartiesAreLastWriteWins ==
    /\ []((last.op = "create_sender" /\ last.outcome = "ok") =>
             sender = Some(Address(last.args[1])))
    /\ []((last.op = "create_receiver" /\ last.outcome = "ok") =>
             receiver = Some(Address(last.args[1])))
    /\ [][ (pc = "idle" /\ last'.op = "create_sender") =>
             /\ UNCHANGED << packages, receiver, posting_list, render_list >>
             /\ last'.outcome # "ok" => sender' = sender ]_vars
    /\ [][ (pc = "idle" /\ last'.op = "create_receiver") =>
             /\ UNCHANGED << packages, sender, posting_list, render_list >>
             /\ last'.outcome # "ok" => receiver' = receiver ]_vars

\* a receiver was stored next to a different sender, a package and a
\* closed list
C10_Witness ==
    /\ last.op = "create_receiver"
    /\ last.outcome = "ok"
    /\ receiver = Some(Address(last.args[1]))
    /\ sender # None
    /\ sender # receiver
    /\ Len(packages) = 1
    /\ posting_list # None

\* the tracking-code requests among the collaborator calls cs
Requests(cs) ==
    { i \in 1..Len(cs) : cs[i].call = "request_tracking_codes" }

\* a step in which the registrar is asked for codes or issues some
Allocates ==
    nextCode' # nextCode \/ (calls' # calls /\ Requests(calls') # {})

\* C11, as claimed: codes are requested and issued only inside a running
\* close_posting_list, one request of one code per package.
C11_AllocationOnlyInsideClose ==
    [][ Allocates => pc = "closing" ]_vars

\* C11, amended: apart from the caller's own request_tracking_codes calls,
\* codes are requested and issued only inside a close_posting_list that
\* passed its assertions, one request of one code at a time; add_package,
\* create_sender and create_receiver request none; and a close that returns
\* has made exactly one request per package, the i-th for the service of the
\* i-th package.
C11_AllocationInCloseOrOnDemand ==
    /\ [](pc = "closing" =>
            Len(packages) > 0 /\ sender # None /\ receiver # None)
    /\ [][ Allocates =>
             \/ /\ pc = "idle"
                /\ last'.op = "request_tracking_codes"
             \/ /\ pc = "closing"
                /\ last'.op = "close_posting_list"
                /\ Len(calls') = Len(calls) + 1
                /\ nextCode' \in {nextCode, nextCode + 1}
         ]_vars
    /\ [][ (pc = "idle" /\ last'.op \in {"add_package", "create_sender",
                                         "create_receiver"}) =>
             calls' = << >> /\ nextCode' = nextCode ]_vars
    /\ [][ CloseReturns =>
             /\ Requests(calls') = 1..Len(packages)
             /\ \A i \in 1..Len(packages) :
                   /\ calls'[i].pkg = packages[i].id
                   /\ calls'[i].service = packages[i].service
         ]_vars

\* a close of two packages of different services has returned after two
\* requests, with codes the caller had requested before
C11_Witness ==
    /\ ClosedOk
    /\ Requests(calls) = {1, 2}
    /\ calls[1].service # calls[2].service
    /\ nextCode = 3

\* C12: the stored list is None or a closed list, and the renderer holds the
\* same; every metrics or rendering operation that uses a list uses a closed
\* one; the stored list changes only when the registrar's closure call of a
\* running close_posting_list has succeeded, to the closed list that call
\* returned; and once a list is stored the slot never goes back to None.
C12_SlotIsNoneOrRegistrarClosed ==
    /\ [](posting_list = None \/ Get(posting_list).closed)
    /\ [](render_list = posting_list)
    /\ []((IsRender(last.op) /\ calls # << >>) => Get(calls[1].list).closed)
    /\ [][ posting_list' # posting_list =>
             /\ pc = "closing"
             /\ open_list # None /\ ~Get(open_list).closed
             /\ calls'[Len(calls')].call = "close_posting_list"
             /\ calls'[Len(calls')].list = open_list
             /\ last'.outcome = "ok"
             /\ posting_list' = Some(RegistrarClose(Get(open_list)))
         ]_vars
    /\ [][ posting_list # None => posting_list' # None ]_vars

\* a running close holds an open list with a label while the slot holds the
\* closed list of an earlier close
C12_Witness ==
    /\ pc = "closing"
    /\ open_list # None
    /\ Len(Get(open_list).labels) = 1
    /\ ~Get(open_list).closed
    /\ posting_list # None
    /\ Get(posting_list).closed
    /\ render_list = posting_list

\* verify_service_availability() has returned the answers for a stored list
VerifiedOk ==
    /\ last.op = "verify_service_availability"
    /\ last.outcome = "ok"
    /\ posting_list # None

\* C13: a verify_service_availability() that returned for a stored list of n
\* labels has made n registrar queries of its own, and a call made right
\* after it makes n queries again and can return any answers the registrar
\* then gives, whatever the call before it returned: two calls in a row make
\* 2n queries and their results may differ.
C13_AvailabilityIsNotCached ==
    VerifiedOk =>
        /\ Len(calls) = Len(StoredLabels)
        /\ \A i \in 1..Len(calls) :
              calls[i].call = "verify_service_availability"
        /\ \A ans \in Availabilities :
              ENABLED (/\ VerifyServiceAvailability
                       /\ last'.seq = ans
                       /\ Len(calls') = Len(StoredLabels)
                       /\ \A i \in 1..Len(calls') :
                             calls'[i].reply = Some(Reply(last.op, ans[i])))

\* the availability of a stored list of two labels was returned, one
\* service available and the other not
C13_Witness ==
    /\ VerifiedOk
    /\ Len(StoredLabels) = 2
    /\ Len(calls) = 2
    /\ last.seq = << TRUE, FALSE >>

\* the generator of delivery_time was read last
Traversing == last.op = "delivery_time_generator"

\* the estimate the registrar gives for the i-th stored label
Estimate(i) == Answer(LabelQuery("calculate_delivery_time", StoredLabels[i]))

\* C14: reading delivery_time makes no registrar query; the traversal makes
\* one query per element it yields, the i-th for the service and the sender
\* and receiver zip codes of the i-th stored label, and yields the
\* registrar's answer to it; a traversal that reaches its end has yielded
\* exactly n estimates after n queries; and a traversal started after one
\* has ended starts from nothing and makes its queries again.
C14_DeliveryTimesLazyAndRestartable ==
    /\ [][ (pc = "idle" /\ last'.op = "delivery_time_generator"
                        /\ last'.seq = << >> /\ last'.outcome = "suspended")
            => calls' = << >> ]_vars
    /\ [](Traversing =>
            /\ Len(last.seq) <= Len(StoredLabels)
            /\ Len(calls) = Len(last.seq)
                             + (IF last.outcome = "RemoteError" THEN 1 ELSE 0)
            /\ \A i \in 1..Len(last.seq) :
                  /\ calls[i].call = "calculate_delivery_time"
                  /\ calls[i].service = StoredLabels[i].service
                  /\ calls[i].from_zip = StoredLabels[i].sender.zip_code
                  /\ calls[i].to_zip = StoredLabels[i].receiver.zip_code
                  /\ calls[i].reply = Some(last.seq[i])
                  /\ last.seq[i] = Estimate(i))
    /\ []((Traversing /\ last.outcome = "ok") =>
            Len(last.seq) = Len(StoredLabels))
    /\ [][ (Traversing /\ last.outcome = "ok" /\ last'.op = last.op) =>
             /\ last'.outcome = "suspended"
             /\ last'.seq = << >>
             /\ calls' = << >> ]_vars
    /\ [][ (Traversing /\ last.outcome = "suspended" /\ last'.op = last.op
            /\ Len(last'.seq) > Len(last.seq)) =>
             /\ Len(last'.seq) = Len(last.seq) + 1
             /\ Len(calls') = Len(calls) + 1 ]_vars

\* a traversal of a stored list of two labels has yielded its first
\* estimate after one query, the second label not asked for yet
C14_Witness ==
    /\ Traversing
    /\ last.outcome = "suspended"
    /\ Len(StoredLabels) = 2
    /\ Len(last.seq) = 1
    /\ Len(calls) = 1

\* C15: a verify_service_availability() that returned for a stored list of n
\* labels returned a list of exactly n booleans, the i-th being the
\* registrar's reply to the query made with the posting card, the service
\* and the sender and receiver zip codes of the i-th label; and a
\* verify_service_availability called with arguments makes one query, with
\* the arguments as given and nothing of the stored list, and returns the
\* registrar's reply to it.
C15_AvailabilityPerLabelOrForwarded ==
    /\ VerifiedOk =>
          /\ last.kind = "list"
          /\ Len(last.seq) = Len(StoredLabels)
          /\ Len(calls) = Len(StoredLabels)
          /\ \A i \in 1..Len(StoredLabels) :
                /\ last.seq[i] \in BOOLEAN
                /\ calls[i].posting_card = StoredLabels[i].posting_card
                /\ calls[i].service = StoredLabels[i].service
                /\ calls[i].from_zip = StoredLabels[i].sender.zip_code
                /\ calls[i].to_zip = StoredLabels[i].receiver.zip_code
                /\ calls[i].reply = Some([available |-> last.seq[i]])
    /\ last.op = "verify_service_availability_forwarded" =>
          /\ Len(calls) = 1
          /\ calls[1] = IF last.outcome = "ok"
                        THEN Replied(ForwardedQuery(last.args[1]),
                                     [available |-> last.seq[1]])
                        ELSE ForwardedQuery(last.args[1])
          /\ last.outcome = "ok" =>
                (last.kind = "bool" /\ Len(last.seq) = 1
                                   /\ last.seq[1] \in BOOLEAN)

\* the availability of a stored list of two labels of different services
\* was returned, the first not available and the second available
C15_Witness ==
    /\ VerifiedOk
    /\ Len(StoredLabels) = 2
    /\ StoredLabels[1].service # StoredLabels[2].service
    /\ last.seq = << FALSE, TRUE >>
    /\ calls[1].reply = Some([available |-> FALSE])

\* the id is the one the close_posting_list in `last` was called with, or,
\* when it was called with None, some id of 1000..9999999
IdAsCalled(id) ==
    IF last.args[1] = None
    THEN id \in RandLow..RandHigh
    ELSE id = Get(last.args[1])

\* C16: the list a close_posting_list builds, the list it gives to the
\* registrar's closure call and the list it returns carry the custom_id it
\* was called with whenever that is not None, 0 included, and an id of
\* 1000..9999999 otherwise.
C16_CustomIdKeptOrSynthesized ==
    last.op = "close_posting_list" =>
        /\ pc = "closing" => IdAsCalled(Get(open_list).custom_id)
        /\ \A i \in 1..Len(calls) :
              calls[i].call = "close_posting_list" =>
                  IdAsCalled(Get(calls[i].list).custom_id)
        /\ last.outcome = "ok" => IdAsCalled(last.seq[1].custom_id)

\* a close called with custom_id 0 has given the registrar a list of id 0
\* and returned it
C16_Witness ==
    /\ ClosedOk
    /\ last.args[1] = Some(0)
    /\ Get(calls[Len(calls)].list).custom_id = 0
    /\ last.seq[1].custom_id = 0

\* a step of a close_posting_list, called without extra arguments, that is
\* not its return
CloseStepWithoutReturn ==
    /\ last'.op = "close_posting_list"
    /\ last'.outcome # "ok"
    /\ pc = "closing" \/ CloseCalled

\* a use of the stored list: a rendering that reached the renderer, or a
\* metric
UsesStoredList(op) == IsRender(op) \/ IsMetric(op) \/ op = "tracking_codes"

\* C17: a close_posting_list that fails, at an assertion or at a registrar
\* call, leaves the stored list and the renderer's list as they were at
\* every one of its steps; so after a close that returned and a later one
\* that failed, the rendering and the metrics still work on the list the
\* first one returned.
C17_FailedCloseKeepsStoredList ==
    /\ [][ CloseStepWithoutReturn =>
             UNCHANGED << posting_list, render_list >> ]_vars
    /\ [][ (posting_list # None /\ pc = "idle" /\ UsesStoredList(last'.op)) =>
             /\ UNCHANGED << posting_list, render_list >>
             /\ IsRender(last'.op) => calls'[1].list = posting_list
             /\ (last'.op = "tracking_codes") =>
                   last'.seq = [i \in 1..Len(StoredLabels) |->
                                   StoredLabels[i].tracking_code]
             /\ (IsMetric(last'.op) /\ last'.outcome = "ok") =>
                   Len(last'.seq) = Len(StoredLabels)
         ]_vars

\* the closure call of a second close failed, the list of the first close
\* still stored and held by the renderer
C17_Witness ==
    /\ last.op = "close_posting_list"
    /\ last.outcome = "RemoteError"
    /\ pc = "idle"
    /\ calls # << >>
    /\ calls[Len(calls)].call = "close_posting_list"
    /\ posting_list # None
    /\ render_list = posting_list
    /\ Get(posting_list).labels[1].package.id = 1
    /\ packages # << >>
    /\ packages[1].id = 2

\* the ids of the packages of a sequence of packages or of labels
PackageIds(ps) == { ps[i].id : i \in 1..Len(ps) }

LabelPackageIds(labels) == { labels[i].package.id : i \in 1..Len(labels) }

\* C18: the package list changes only by an add_package that appends a
\* package never seen before, or by a close_posting_list that returns and
\* empties it, every package it held being the package of exactly one label
\* of the returned closed list; and the packages accumulated are distinct
\* and newer than every package of the stored list, so that no package is
\* dropped without a label and none is labelled in two batches.
C18_EveryPackageAccumulatedOrLabelledOnce ==
    /\ [][ packages' # packages =>
             \/ /\ pc = "idle"
                /\ last'.op = "add_package"
                /\ last'.outcome = "ok"
                /\ Len(packages') = Len(packages) + 1
                /\ SubSeq(packages', 1, Len(packages)) = packages
                /\ packages'[Len(packages')].id = nextPkg + 1
                /\ nextPkg' = nextPkg + 1
             \/ /\ CloseReturns
                /\ packages' = << >>
                /\ last'.seq[1].closed
                /\ posting_list' = Some(last'.seq[1])
                /\ Len(last'.seq[1].labels) = Len(packages)
                /\ \A i \in 1..Len(packages) :
                      Cardinality({ j \in 1..Len(last'.seq[1].labels) :
                          last'.seq[1].labels[j].package = packages[i] }) = 1
         ]_vars
    /\ [](/\ Cardinality(PackageIds(packages)) = Len(packages)
          /\ \A id \in PackageIds(packages) : id <= nextPkg
          /\ \A id \in PackageIds(packages), old \in LabelPackageIds(StoredLabels) :
                old < id)
    /\ [][ nextPkg' >= nextPkg ]_vars

\* a second close has returned a list with the second package alone, the
\* first package being in the list of the first close
C18_Witness ==
    /\ ClosedOk
    /\ packages = << >>
    /\ nextPkg = 2
    /\ LabelPackageIds(StoredLabels) = {2}
    /\ nextCode = 2

\* the labels carry, in order, the codes issued last
CarryLatestCodes(labels) ==
    \A i \in 1..Len(labels) :
        labels[i].tracking_code = nextCode - Len(labels) + i

\* C19: every attempt of close_posting_list requests its codes anew: the
\* labels of the list it is building, and of the list it returns, carry the
\* codes issued in that attempt, one request each, and no code issued
\* before it; a registrar failure takes no issued code back; and no call
\* other than a request for codes or the closure call is ever made. A close
\* of n packages that returns after an attempt that failed with k codes
\* issued thus makes n requests of its own, k + n codes being issued in
\* all, and none of the k codes is in its list.
C19_RetryAllocatesAnew ==
    /\ [](pc = "closing" =>
            /\ CarryLatestCodes(Get(open_list).labels)
            /\ Len(calls) = Len(Get(open_list).labels)
            /\ Requests(calls) = 1..Len(calls))
    /\ [](ClosedOk =>
            /\ CarryLatestCodes(last.seq[1].labels)
            /\ Len(calls) = Len(last.seq[1].labels) + 1
            /\ Requests(calls) = 1..Len(last.seq[1].labels))
    /\ [](\A i \in 1..Len(calls) :
            calls[i].call \in {"request_tracking_codes", "close_posting_list"})
    /\ [][ nextCode' >= nextCode ]_vars
    /\ [][ (pc = "closing" /\ last'.outcome = "RemoteError") =>
             nextCode' = nextCode /\ packages' = packages ]_vars

\* a close of two packages has returned with the second and third codes
\* issued, the first code having gone to an attempt that failed
C19_Witness ==
    /\ ClosedOk
    /\ Len(last.seq[1].labels) = 2
    /\ last.seq[1].labels[1].package.id = 1
    /\ last.seq[1].labels[1].tracking_code = 2
    /\ last.seq[1].labels[2].tracking_code = 3
    /\ nextCode = 3

====
